---------------------------- MODULE Spec2Model ----------------------------
(***************************************************************************)
(* A model of the IANA language subtag registry converter (parser.go).     *)
(*                                                                         *)
(* A Go string is a sequence of bytes.  One byte is modelled as a string:  *)
(* a one-character string is the ASCII byte of that character, and the     *)
(* two-character strings "C3", "A9" and "00" name the bytes 0xC3, 0xA9     *)
(* (together the UTF-8 encoding of U+00E9) and 0x00.                        *)
(***************************************************************************)
EXTENDS Integers, Sequences, FiniteSets, TLC

VARIABLES
    served,     \* the registry text the URL serves during the behaviour
    cache,      \* the file registry.txt: Absent, or its bytes
    fetched,    \* history: the bodies of the HTTP 200 responses received so far
    runs,       \* the number of runs of the program started so far
    pc,         \* the position of the current run
    res,        \* the http.Response of the current run (loadBlocks' res)
    off,        \* the number of bytes of f the bufio.Scanner has consumed
    bss,        \* the blocks read so far (loadBlocks' blocks, main's bss)
    lexed,      \* the mapping lexBlock returned last
    cur,        \* the index in bss of the block lexed last (0: none)
    r,          \* main's Registry
    stdout,     \* what the run has written to standard output
    diag        \* the diagnostic of log.Fatalf, or of the runtime panic

vars == <<served, cache, fetched, runs, pc, res, off, bss, lexed, cur, r, stdout, diag>>

(***************************************************************************)
(* Bytes and strings                                                       *)
(***************************************************************************)
\* registry.txt is not there (os.Open fails): no sequence of bytes.
Absent == <<"ENOENT">>

Lowers == {"a","b","c","d","e","f","g","h","i","j","k","l","m",
           "n","o","p","q","r","s","t","u","v","w","x","y","z"}

Uppers == {"A","B","C","D","E","F","G","H","I","J","K","L","M",
           "N","O","P","Q","R","S","T","U","V","W","X","Y","Z"}

Digits == {"0","1","2","3","4","5","6","7","8","9"}

\* The bytes above 0x7F of the model: with them a string is not ASCII.
HighBytes == {"C3", "A9"}

IsASCII(b) == b \notin HighBytes

Min(S) == CHOOSE m \in S : \A n \in S : m <= n

Max(S) == CHOOSE m \in S : \A n \in S : m >= n

\* s[from..] in Go's notation, from counted from 0.
Drop(s, from) == SubSeq(s, from + 1, Len(s))

\* s[:to] in Go's notation.
Take(s, to) == SubSeq(s, 1, to)

IsPrefix(p, s) == Len(p) <= Len(s) /\ Take(s, Len(p)) = p

RECURSIVE Join(_, _)
\* strings.Join / bytes.Join: the elements of ss with d between them.
Join(ss, d) ==
    IF ss = <<>> THEN <<>>
    ELSE IF Len(ss) = 1 THEN ss[1]
    ELSE ss[1] \o d \o Join(Tail(ss), d)

\* bytes.Index / strings.Index: the offset (from 0) of the first occurrence
\* of s in data, or -1.
Index(data, s) ==
    LET hits == {k \in 0..(Len(data) - Len(s)) : SubSeq(data, k + 1, k + Len(s)) = s}
    IN  IF hits = {} THEN -1 ELSE Min(hits)

RECURSIVE Split(_, _)
\* strings.Split(s, d) for a non-empty d: the pieces of s between the
\* occurrences of d, found from the left; always at least one piece.
Split(s, d) ==
    LET k == Index(s, d)
    IN  IF k = -1 THEN <<s>>
        ELSE <<Take(s, k)>> \o Split(Drop(s, k + Len(d)), d)

(***************************************************************************)
(* loadBlocks, second half: the bufio.Scanner over the cache file          *)
(***************************************************************************)
sep == <<"\n", "%", "%", "\n">>

\* bufio.MaxScanTokenSize, the buffer limit of the Scanner of bufio.NewScanner.
MaxScanTokenSize == 65536

\* SplitFunc, but with no token for an empty remainder at end of file.
SplitFuncDropsEmptyFinal(data, atEOF) ==
    LET index == Index(data, sep)
    IN  IF index # -1
        THEN [advance |-> index + Len(sep), token |-> Take(data, index + 1),
              hasToken |-> TRUE, final |-> FALSE]
        ELSE IF ~atEOF
        THEN [advance |-> 0, token |-> <<>>, hasToken |-> FALSE, final |-> FALSE]
        ELSE [advance |-> Len(data), token |-> data,
              hasToken |-> data # <<>>, final |-> TRUE]

\* The function given to br.Split: (advance, token, err), err being nil
\* (final = FALSE) or bufio.ErrFinalToken (final = TRUE).
SplitFunc(data, atEOF) ==
    LET index == Index(data, sep)
    IN  IF index # -1
        THEN [advance |-> index + Len(sep), token |-> Take(data, index + 1),
              hasToken |-> TRUE, final |-> FALSE]
        ELSE IF ~atEOF
        THEN [advance |-> 0, token |-> <<>>, hasToken |-> FALSE, final |-> FALSE]
        ELSE [advance |-> Len(data), token |-> data, hasToken |-> TRUE, final |-> TRUE]

\* One br.Scan() on the unread bytes rest of the file.  The Scanner calls
\* the split function on what its buffer holds, reading more as long as no
\* token comes back; the buffer holds at most MaxScanTokenSize bytes, and
\* end of file is seen only once the buffer has room left.  A buffer that is
\* full without a token ends the scan with ErrTooLong (kind "stop"), which
\* loadBlocks never looks at.
ScanOnce(rest) ==
    LET full   == Len(rest) >= MaxScanTokenSize
        window == IF full THEN Take(rest, MaxScanTokenSize) ELSE rest
        sf     == SplitFunc(window, ~full)
    IN  IF ~sf.hasToken THEN [kind |-> "stop", advance |-> 0, token |-> <<>>]
        ELSE IF sf.final THEN [kind |-> "final", advance |-> sf.advance, token |-> sf.token]
        ELSE [kind |-> "token", advance |-> sf.advance, token |-> sf.token]

\* for br.Scan() { blocks = append(blocks, []byte(br.Text())) }: one turn
\* of the loop that is not the last.
ScanBlock ==
    /\ pc = "scan"
    /\ cache # Absent
    /\ LET s == ScanOnce(Drop(cache, off))
       IN  /\ s.kind = "token"
           /\ bss' = Append(bss, s.token)
           /\ off' = off + s.advance
    /\ UNCHANGED <<served, cache, fetched, runs, pc, res, lexed, cur, r, stdout, diag>>

\* The last turn: the final token (br.Scan() is false from then on), or the
\* scan stopped; loadBlocks returns blocks and main logs their number.
ScanLast ==
    /\ pc = "scan"
    /\ cache # Absent
    /\ LET s == ScanOnce(Drop(cache, off))
       IN  /\ s.kind # "token"
           /\ bss' = IF s.kind = "final" THEN Append(bss, s.token) ELSE bss
           /\ off' = off + s.advance
    /\ pc' = "init"
    /\ UNCHANGED <<served, cache, fetched, runs, res, lexed, cur, r, stdout, diag>>

(***************************************************************************)
(* lexBlock                                                                *)
(***************************************************************************)
UpperSeq == <<"A","B","C","D","E","F","G","H","I","J","K","L","M",
              "N","O","P","Q","R","S","T","U","V","W","X","Y","Z">>

LowerSeq == <<"a","b","c","d","e","f","g","h","i","j","k","l","m",
              "n","o","p","q","r","s","t","u","v","w","x","y","z">>

\* strings.ToLower on one byte.
ToLowerByte(b) ==
    IF b \in Uppers THEN LowerSeq[CHOOSE k \in 1..26 : UpperSeq[k] = b] ELSE b

\* strings.ToLower.
ToLower(s) == [k \in 1..Len(s) |-> ToLowerByte(s[k])]

\* The class (?:-|[[:alpha:]]) of PropRowRx.
IsNameByte(b) == b = "-" \/ b \in Lowers \/ b \in Uppers

\* PropRowRx.FindStringSubmatch(row) for ^((?:-|[[:alpha:]])+): (.+)$ :
\* <<row, name, rest>> on a match, <<>> otherwise.  The name is the longest
\* run of name bytes at the start (the colon that must follow is not one);
\* "." matches every byte but the newline.
PropRowRx(row) ==
    LET n == Max({k \in 0..Len(row) : \A j \in 1..k : IsNameByte(row[j])})
    IN  IF /\ n >= 1
           /\ Len(row) >= n + 3
           /\ row[n + 1] = ":"
           /\ row[n + 2] = " "
           /\ \A j \in (n + 3)..Len(row) : row[j] # "\n"
        THEN <<row, Take(row, n), Drop(row, n + 2)>>
        ELSE <<>>

RECURSIVE TrimLeft(_, _)
\* strings.TrimLeft(s, cutset), cutset a set of bytes.
TrimLeft(s, cutset) ==
    IF s # <<>> /\ Head(s) \in cutset THEN TrimLeft(Tail(s), cutset) ELSE s

RECURSIVE TrimRight(_, _)
\* strings.TrimRight(s, cutset).
TrimRight(s, cutset) ==
    IF s # <<>> /\ s[Len(s)] \in cutset THEN TrimRight(Take(s, Len(s) - 1), cutset) ELSE s

\* strings.Trim(s, cutset).
Trim(s, cutset) == TrimRight(TrimLeft(s, cutset), cutset)

\* make(map[string][]string, 20)
EmptyMap == [k \in {} |-> <<>>]

\* MapAppend, but with the new value in place of the earlier ones.
MapAppendOverwrites(m, k, v) ==
    [x \in DOMAIN m \cup {k} |-> IF x = k THEN <<v>> ELSE m[x]]

\* m[k] = append(m[k], v)
MapAppend(m, k, v) ==
    [x \in DOMAIN m \cup {k} |->
        IF x = k THEN (IF k \in DOMAIN m THEN m[k] ELSE <<>>) \o <<v>> ELSE m[x]]

\* Continuation, but without the separating space.
ContinuationNoSpace(cv, row) == cv \o Trim(row, {" "})

\* cv += " " + strings.Trim(row, " ")
Continuation(cv, row) == cv \o <<" ">> \o Trim(row, {" "})

\* One turn of lexBlock's loop over the rows, on its locals m, ck and cv.
LexRow(st, row) ==
    IF row = <<>> THEN st
    ELSE LET key == PropRowRx(row)
         IN  IF Len(key) > 2
             THEN [m  |-> IF st.ck # <<>> THEN MapAppend(st.m, st.ck, st.cv) ELSE st.m,
                   ck |-> ToLower(key[2]),
                   cv |-> key[3]]
             ELSE [st EXCEPT !.cv = Continuation(st.cv, row)]

RECURSIVE LexRows(_, _)
LexRows(rows, st) ==
    IF rows = <<>> THEN st ELSE LexRows(Tail(rows), LexRow(st, Head(rows)))

lexBlock(bs) ==
    LET st == LexRows(Split(bs, <<"\n">>), [m |-> EmptyMap, ck |-> <<>>, cv |-> <<>>])
    IN  IF st.ck # <<>> THEN MapAppend(st.m, st.ck, st.cv) ELSE st.m

(***************************************************************************)
(* Date, Script, Entry, Registry                                           *)
(***************************************************************************)
DigitSeq == <<"0","1","2","3","4","5","6","7","8","9">>

DigitVal(b) == (CHOOSE k \in 1..10 : DigitSeq[k] = b) - 1

\* The number a run of digit bytes writes.
Num(ds) ==
    LET RECURSIVE go(_, _)
        go(k, acc) == IF k > Len(ds) THEN acc ELSE go(k + 1, acc * 10 + DigitVal(ds[k]))
    IN  go(1, 0)

IsLeap(y) == y % 4 = 0 /\ (y % 100 # 0 \/ y % 400 = 0)

\* time's daysIn(month, year).
DaysIn(m, y) ==
    IF m = 2 THEN (IF IsLeap(y) THEN 29 ELSE 28)
    ELSE IF m \in {4, 6, 9, 11} THEN 30 ELSE 31

\* The zero time.Time: January 1 of year 1, 00:00:00 UTC.  A Date holds a
\* time of day of 00:00:00 UTC always, so year, month and day are all of it.
ZeroDate == [y |-> 1, m |-> 1, d |-> 1]

\* time.Parse("2006-01-02", v): a four-digit year, "-", a two-digit month,
\* "-", a two-digit day and nothing more; the month in 1..12, the day in the
\* month.
TimeParse(v) ==
    IF /\ Len(v) = 10
       /\ \A j \in {1, 2, 3, 4, 6, 7, 9, 10} : v[j] \in Digits
       /\ v[5] = "-"
       /\ v[8] = "-"
    THEN LET y == Num(SubSeq(v, 1, 4))
             m == Num(SubSeq(v, 6, 7))
             d == Num(SubSeq(v, 9, 10))
         IN  IF m \in 1..12 /\ d >= 1 /\ d <= DaysIn(m, y)
             THEN [ok |-> TRUE, val |-> [y |-> y, m |-> m, d |-> d]]
             ELSE [ok |-> FALSE, val |-> ZeroDate]
    ELSE [ok |-> FALSE, val |-> ZeroDate]

\* Date.IsZero
DateIsZero(d) == d = ZeroDate

\* Date.MarshalYAML: time.Time(d).Format("2006-01-02")
DateMarshalYAML(d) ==
    LET dig(n) == DigitSeq[(n % 10) + 1]
    IN  <<dig(d.y \div 1000), dig(d.y \div 100), dig(d.y \div 10), dig(d.y), "-",
          dig(d.m \div 10), dig(d.m), "-", dig(d.d \div 10), dig(d.d)>>

\* var zero Script: four runes of value 0.
ZeroScript == <<"00", "00", "00", "00">>

\* Script.IsZero
ScriptIsZero(sc) == sc = ZeroScript

\* Script.MarshalYAML: the four runes as four bytes.
ScriptMarshalYAML(sc) == sc

\* &Entry{}
ZeroEntry ==
    [Added |-> ZeroDate, Comments |-> <<>>, Deprecated |-> ZeroDate,
     Description |-> <<>>, MacroLanguage |-> <<>>, PreferredValue |-> <<>>,
     Prefix |-> <<>>, Scope |-> <<>>, Subtag |-> <<>>,
     SuppressScript |-> ZeroScript, Tag |-> <<>>, Type |-> <<>>]

ZeroRegistry == [FileDate |-> ZeroDate, Entries |-> <<>>]

(***************************************************************************)
(* The field names of initRegistry and of parseBlock's switch              *)
(***************************************************************************)
K_file_date == <<"f","i","l","e","-","d","a","t","e">>

K_added == <<"a","d","d","e","d">>

K_comments == <<"c","o","m","m","e","n","t","s">>

K_deprecated == <<"d","e","p","r","e","c","a","t","e","d">>

K_description == <<"d","e","s","c","r","i","p","t","i","o","n">>

K_macrolanguage == <<"m","a","c","r","o","l","a","n","g","u","a","g","e">>

K_preferred_value == <<"p","r","e","f","e","r","r","e","d","-","v","a","l","u","e">>

K_prefix == <<"p","r","e","f","i","x">>

K_scope == <<"s","c","o","p","e">>

K_subtag == <<"s","u","b","t","a","g">>

K_suppress_script == <<"s","u","p","p","r","e","s","s","-","s","c","r","i","p","t">>

K_tag == <<"t","a","g">>

K_type == <<"t","y","p","e">>

(***************************************************************************)
(* The decoders.  Each gives [ok, val, diag]: the value, or ok = FALSE and *)
(* the diagnostic of its log.Fatalf.                                       *)
(***************************************************************************)
Decoded(v) == [ok |-> TRUE, val |-> v, diag |-> <<>>]

Fatalf(msg, k) == [ok |-> FALSE, val |-> <<>>, diag |-> <<msg, k>>]

parseDate(k, vs) ==
    IF Len(vs) # 1 THEN Fatalf("has value with length != 1", k)
    ELSE LET t == TimeParse(vs[1])
         IN  IF ~t.ok THEN Fatalf("failed parsing value", k) ELSE Decoded(t.val)

\* len(v) is the number of bytes of v; fixed[i] = rune(v[i]) copies bytes.
parseScript(k, vs) ==
    IF Len(vs) # 1 THEN Fatalf("has value with length != 1", k)
    ELSE IF Len(vs[1]) # 4 THEN Fatalf("has language with len != 4", k)
    ELSE Decoded(vs[1])

parseString(k, vs) ==
    IF Len(vs) # 1 THEN Fatalf("has value with length != 1", k) ELSE Decoded(vs[1])

\* One case of parseBlock's switch.
ParseField(k, vs) ==
    CASE k = K_added           -> parseDate(k, vs)
      [] k = K_comments        -> parseString(k, vs)
      [] k = K_deprecated      -> parseDate(k, vs)
      [] k = K_description     -> Decoded(vs)
      [] k = K_macrolanguage   -> parseString(k, vs)
      [] k = K_preferred_value -> parseString(k, vs)
      [] k = K_prefix          -> Decoded(vs)
      [] k = K_scope           -> parseString(k, vs)
      [] k = K_subtag          -> parseString(k, vs)
      [] k = K_suppress_script -> parseScript(k, vs)
      [] k = K_tag             -> parseString(k, vs)
      [] k = K_type            -> parseString(k, vs)
      [] OTHER                 -> Fatalf("unexpected key", k)

\* parseBlock: [ok, e, diags].  The loop ranges over a Go map, in an order
\* the runtime picks: when several keys are fatal, the diagnostic is that of
\* any one of them (diags); the run is aborted in every order.
parseBlock(m) ==
    LET got == [k \in DOMAIN m |-> ParseField(k, m[k])]
        bad == {k \in DOMAIN m : ~got[k].ok}
        field(k, zero) == IF k \in DOMAIN m THEN got[k].val ELSE zero
    IN  [ok    |-> bad = {},
         diags |-> {got[k].diag : k \in bad},
         e     |-> [Added          |-> field(K_added, ZeroDate),
                    Comments       |-> field(K_comments, <<>>),
                    Deprecated     |-> field(K_deprecated, ZeroDate),
                    Description    |-> field(K_description, <<>>),
                    MacroLanguage  |-> field(K_macrolanguage, <<>>),
                    PreferredValue |-> field(K_preferred_value, <<>>),
                    Prefix         |-> field(K_prefix, <<>>),
                    Scope          |-> field(K_scope, <<>>),
                    Subtag         |-> field(K_subtag, <<>>),
                    SuppressScript |-> field(K_suppress_script, ZeroScript),
                    Tag            |-> field(K_tag, <<>>),
                    Type           |-> field(K_type, <<>>)]]

\* initRegistry(bss), for a bss that has a first block: [ok, val, diag], val
\* being the FileDate of the Registry it returns.
initRegistry(blocks) ==
    LET dateBlock == lexBlock(blocks[1])
    IN  IF K_file_date \notin DOMAIN dateBlock
        THEN Fatalf("First block is not a file-data block", <<>>)
        ELSE parseDate(K_file_date, dateBlock[K_file_date])

(***************************************************************************)
(* The YAML encoding of the Registry                                       *)
(***************************************************************************)
\* One Entry as yaml.v3 renders it: a mapping from the keys of the struct
\* tags to the values, a field tagged omitempty being left out when it is
\* zero (IsZero for Date and Script, length 0 for strings and slices).
\* Added is tagged `yaml:"added"`, without omitempty.
YamlEntry(e) ==
    LET vals == [k \in {"added", "comments", "deprecated", "description",
                        "macro-language", "preferred-value", "prefix", "scope",
                        "subtag", "suppress-script", "tag", "type"} |->
                    CASE k = "added"           -> <<DateMarshalYAML(e.Added)>>
                      [] k = "comments"        -> <<e.Comments>>
                      [] k = "deprecated"      -> <<DateMarshalYAML(e.Deprecated)>>
                      [] k = "description"     -> e.Description
                      [] k = "macro-language"  -> <<e.MacroLanguage>>
                      [] k = "preferred-value" -> <<e.PreferredValue>>
                      [] k = "prefix"          -> e.Prefix
                      [] k = "scope"           -> <<e.Scope>>
                      [] k = "subtag"          -> <<e.Subtag>>
                      [] k = "suppress-script" -> <<ScriptMarshalYAML(e.SuppressScript)>>
                      [] k = "tag"             -> <<e.Tag>>
                      [] k = "type"            -> <<e.Type>>]
        keys == {"added"}
                \cup (IF e.Comments # <<>> THEN {"comments"} ELSE {})
                \cup (IF ~DateIsZero(e.Deprecated) THEN {"deprecated"} ELSE {})
                \cup (IF e.Description # <<>> THEN {"description"} ELSE {})
                \cup (IF e.MacroLanguage # <<>> THEN {"macro-language"} ELSE {})
                \cup (IF e.PreferredValue # <<>> THEN {"preferred-value"} ELSE {})
                \cup (IF e.Prefix # <<>> THEN {"prefix"} ELSE {})
                \cup (IF e.Scope # <<>> THEN {"scope"} ELSE {})
                \cup (IF e.Subtag # <<>> THEN {"subtag"} ELSE {})
                \cup (IF ~ScriptIsZero(e.SuppressScript) THEN {"suppress-script"} ELSE {})
                \cup (IF e.Tag # <<>> THEN {"tag"} ELSE {})
                \cup (IF e.Type # <<>> THEN {"type"} ELSE {})
    IN  [k \in keys |-> vals[k]]

\* yaml.NewEncoder(os.Stdout).Encode(r): Registry has no struct tags, so its
\* keys are the lower-cased field names.
Encode(reg) ==
    [filedate |-> DateMarshalYAML(reg.FileDate),
     entries  |-> [n \in 1..Len(reg.Entries) |-> YamlEntry(reg.Entries[n])]]

(***************************************************************************)
(* The inputs: registry texts made of these lines                          *)
(***************************************************************************)
\* File-Date: 2022-08-08
L_FileDate ==
    <<"F","i","l","e","-","D","a","t","e",":"," ","2","0","2","2","-","0","8","-","0","8">>

\* File-Date: 2022-02-30
L_FileDateFeb30 ==
    <<"F","i","l","e","-","D","a","t","e",":"," ","2","0","2","2","-","0","2","-","3","0">>

\* Type: language
L_TypeLanguage ==
    <<"T","y","p","e",":"," ","l","a","n","g","u","a","g","e">>

\* Type: script
L_TypeScript ==
    <<"T","y","p","e",":"," ","s","c","r","i","p","t">>

\* Tag: x
L_TagX ==
    <<"T","a","g",":"," ","x">>

\* tag: y
L_TagY ==
    <<"t","a","g",":"," ","y">>

\* Subtag: cu
L_SubtagCu ==
    <<"S","u","b","t","a","g",":"," ","c","u">>

\* Subtag: Latf
L_SubtagLatf ==
    <<"S","u","b","t","a","g",":"," ","L","a","t","f">>

\* Added: 2005-10-16
L_Added ==
    <<"A","d","d","e","d",":"," ","2","0","0","5","-","1","0","-","1","6">>

\* Suppress-Script: Latn
L_SuppressLatn ==
    <<"S","u","p","p","r","e","s","s","-","S","c","r","i","p","t",":"," ","L","a","t","n">>

\* Suppress-Script: Lat
L_SuppressLat ==
    <<"S","u","p","p","r","e","s","s","-","S","c","r","i","p","t",":"," ","L","a","t">>

\* Suppress-Script: LtL t 0xC3 0xA9
L_SuppressUtf8 ==
    <<"S","u","p","p","r","e","s","s","-","S","c","r","i","p","t",":"," ","L","t","C3","A9">>

\* Foo: bar
L_Foo ==
    <<"F","o","o",":"," ","b","a","r">>

\* Deprecated: 2009-13-01
L_DeprecatedMonth13 ==
    <<"D","e","p","r","e","c","a","t","e","d",":"," ","2","0","0","9","-","1","3","-","0","1">>

\* Prefix: ar
L_PrefixAr ==
    <<"P","r","e","f","i","x",":"," ","a","r">>

\* Prefix: fr
L_PrefixFr ==
    <<"P","r","e","f","i","x",":"," ","f","r">>

\* Comments: sr, hr
L_Comments ==
    <<"C","o","m","m","e","n","t","s",":"," ","s","r",","," ","h","r">>

\*   and bs
L_CommentsMore ==
    <<" "," ","a","n","d"," ","b","s">>

\* The lines of a block, one per row.
Block(ls) == Join(ls, <<"\n">>)

\* First blocks: a header, a header with a Type field too, a header with a
\* field given twice as well, a date that is no calendar date, no File-Date.
HeaderPool ==
    {Block(<<L_FileDate>>),
     Block(<<L_FileDate, L_TypeLanguage>>),
     Block(<<L_FileDate, L_TagX, L_TagY>>),
     Block(<<L_FileDateFeb30>>),
     Block(<<L_TypeLanguage>>)}

RecordPool ==
    {Block(<<L_TypeLanguage, L_SubtagCu, L_Added>>),
     Block(<<L_TypeScript, L_SubtagLatf>>),
     Block(<<L_SuppressLatn, L_Comments, L_CommentsMore>>),
     Block(<<L_SuppressLat>>),
     Block(<<L_SuppressUtf8>>),
     Block(<<L_TagX, L_TagY>>),
     Block(<<L_Foo>>),
     Block(<<L_DeprecatedMonth13>>),
     Block(<<L_PrefixAr, L_PrefixFr>>)}

\* The most record blocks of a registry text.
MaxRecords == 2

\* The most runs of the program in a behaviour.
MaxRuns == 2

SeqsUpTo(S, n) == UNION {[1..k -> S] : k \in 0..n}

\* What the registry's URL may serve.
Bodies ==
    {Join(<<h>> \o recs, sep) : h \in HeaderPool, recs \in SeqsUpTo(RecordPool, MaxRecords)}

\* http.StatusOK
StatusOK == 200

Statuses == {StatusOK, 404}

(***************************************************************************)
(* loadBlocks, first half: the cache file or the download                  *)
(***************************************************************************)
NoResponse == [StatusCode |-> 0, Body |-> <<>>]

\* What a run starts with.
FreshLocals ==
    /\ res' = NoResponse
    /\ off' = 0
    /\ bss' = <<>>
    /\ lexed' = EmptyMap
    /\ cur' = 0
    /\ r' = ZeroRegistry
    /\ stdout' = <<>>
    /\ diag' = <<>>

\* if f, err = os.Open(CachePath); err == nil { goto fileExists }
OpenCache ==
    /\ pc = "open"
    /\ pc' = IF cache # Absent THEN "scan" ELSE "get"
    /\ UNCHANGED <<served, cache, fetched, runs, res, off, bss, lexed, cur, r, stdout, diag>>

\* http.Get(Url) returns an error.
HttpGetFails ==
    /\ pc = "get"
    /\ pc' = "fatal"
    /\ diag' = <<"No cache and fail to read online version", <<>>>>
    /\ UNCHANGED <<served, cache, fetched, runs, res, off, bss, lexed, cur, r, stdout>>

\* http.Get(Url) returns a response; then the check of its status.
HttpGet ==
    /\ pc = "get"
    /\ \E st \in Statuses :
          /\ res' = [StatusCode |-> st, Body |-> served]
          /\ IF st # StatusOK
             THEN /\ pc' = "fatal"
                  /\ diag' = <<"HTTP error getting fresh registry", <<>>>>
                  /\ fetched' = fetched
             ELSE /\ pc' = "create"
                  /\ diag' = diag
                  /\ fetched' = fetched \cup {served}
    /\ UNCHANGED <<served, cache, runs, off, bss, lexed, cur, r, stdout>>

\* os.OpenFile(CachePath, os.O_CREATE|os.O_RDWR, 0666) returns an error.
CreateCacheFails ==
    /\ pc = "create"
    /\ pc' = "fatal"
    /\ diag' = <<"No cache and fail to create cache file", <<>>>>
    /\ UNCHANGED <<served, cache, fetched, runs, res, off, bss, lexed, cur, r, stdout>>

\* os.OpenFile(CachePath, os.O_CREATE|os.O_RDWR, 0666): the file is there
\* from now on, empty when it was not there before (there is no O_TRUNC).
CreateCache ==
    /\ pc = "create"
    /\ cache' = IF cache = Absent THEN <<>> ELSE cache
    /\ pc' = "copy"
    /\ UNCHANGED <<served, fetched, runs, res, off, bss, lexed, cur, r, stdout, diag>>

\* The file after data is written at its start.
WriteAtStart(file, data) == data \o Drop(file, Len(data))

\* io.Copy(f, res.Body) returns an error, n bytes of the body being written
\* by then; log.Fatalf exits and the file stays as it is.
CopyFails ==
    /\ pc = "copy"
    /\ \E n \in 0..Len(res.Body) : cache' = WriteAtStart(cache, Take(res.Body, n))
    /\ pc' = "fatal"
    /\ diag' = <<"No cache and fail to write cache file", <<>>>>
    /\ UNCHANGED <<served, fetched, runs, res, off, bss, lexed, cur, r, stdout>>

\* io.Copy(f, res.Body) writes the whole body.
Copy ==
    /\ pc = "copy"
    /\ cache' = WriteAtStart(cache, res.Body)
    /\ pc' = "seek"
    /\ UNCHANGED <<served, fetched, runs, res, off, bss, lexed, cur, r, stdout, diag>>

\* f.Seek(0, io.SeekStart) returns an error.
SeekFails ==
    /\ pc = "seek"
    /\ pc' = "fatal"
    /\ diag' = <<"Failed resetting newly created cache file", <<>>>>
    /\ UNCHANGED <<served, cache, fetched, runs, res, off, bss, lexed, cur, r, stdout>>

\* f.Seek(0, io.SeekStart)
Seek ==
    /\ pc = "seek"
    /\ off' = 0
    /\ pc' = "scan"
    /\ UNCHANGED <<served, cache, fetched, runs, res, bss, lexed, cur, r, stdout, diag>>

(***************************************************************************)
(* main                                                                    *)
(***************************************************************************)
\* r := initRegistry(bss)
InitRegistry ==
    /\ pc = "init"
    /\ IF bss = <<>>
       THEN /\ pc' = "panic"
            /\ diag' = <<"index out of range", <<>>>>
            /\ UNCHANGED <<lexed, cur, r>>
       ELSE LET h == initRegistry(bss)
            IN  /\ lexed' = lexBlock(bss[1])
                /\ cur' = 1
                /\ IF h.ok
                   THEN /\ r' = [FileDate |-> h.val, Entries |-> <<>>]
                        /\ pc' = "parse"
                        /\ diag' = diag
                   ELSE /\ r' = r
                        /\ pc' = "fatal"
                        /\ diag' = h.diag
    /\ UNCHANGED <<served, cache, fetched, runs, res, off, bss, stdout>>

\* One turn of the loop over bss[1:]:
\* e := parseBlock(lexBlock(string(bs))); r.Entries = append(r.Entries, *e)
ParseBlock ==
    /\ pc = "parse"
    /\ cur < Len(bss)
    /\ LET m == lexBlock(bss[cur + 1])
           p == parseBlock(m)
       IN  /\ lexed' = m
           /\ cur' = cur + 1
           /\ IF p.ok
              THEN /\ r' = [r EXCEPT !.Entries = Append(@, p.e)]
                   /\ pc' = pc
                   /\ diag' = diag
              ELSE /\ r' = r
                   /\ pc' = "fatal"
                   /\ \E d \in p.diags : diag' = d
    /\ UNCHANGED <<served, cache, fetched, runs, res, off, bss, stdout>>

\* e := yaml.NewEncoder(os.Stdout); e.Encode(r)
EncodeRegistry ==
    /\ pc = "parse"
    /\ cur = Len(bss)
    /\ stdout' = Append(stdout, Encode(r))
    /\ pc' = "done"
    /\ UNCHANGED <<served, cache, fetched, runs, res, off, bss, lexed, cur, r, diag>>

\* The program is started again; registry.txt is what the run before left.
NewRun ==
    /\ pc \in {"done", "fatal", "panic"}
    /\ runs < MaxRuns
    /\ runs' = runs + 1
    /\ pc' = "open"
    /\ FreshLocals
    /\ UNCHANGED <<served, cache, fetched>>

Init ==
    /\ served \in Bodies
    /\ cache = Absent
    /\ fetched = {}
    /\ runs = 1
    /\ pc = "open"
    /\ res = NoResponse
    /\ off = 0
    /\ bss = <<>>
    /\ lexed = EmptyMap
    /\ cur = 0
    /\ r = ZeroRegistry
    /\ stdout = <<>>
    /\ diag = <<>>

Next ==
    \/ OpenCache
    \/ HttpGetFails
    \/ HttpGet
    \/ CreateCacheFails
    \/ CreateCache
    \/ CopyFails
    \/ Copy
    \/ SeekFails
    \/ Seek
    \/ ScanBlock
    \/ ScanLast
    \/ InitRegistry
    \/ ParseBlock
    \/ EncodeRegistry
    \/ NewRun

\* The program, run up to MaxRuns times on the registry texts of Bodies.
Spec == Init /\ [][Next]_vars

(***************************************************************************)
(* The block splitter alone, on every short text over three bytes          *)
(***************************************************************************)
ScanBytes == {"\n", "%", "a"}

\* The longest text given to the splitter.
MaxScanLen == 8

InitScan ==
    /\ served = <<>>
    /\ cache \in SeqsUpTo(ScanBytes, MaxScanLen)
    /\ fetched = {}
    /\ runs = 1
    /\ pc = "scan"
    /\ res = NoResponse
    /\ off = 0
    /\ bss = <<>>
    /\ lexed = EmptyMap
    /\ cur = 0
    /\ r = ZeroRegistry
    /\ stdout = <<>>
    /\ diag = <<>>

NextScan == ScanBlock \/ ScanLast

SpecScan == InitScan /\ [][NextScan]_vars

(***************************************************************************)
(* lexBlock alone, on every block of up to MaxRows of these rows           *)
(***************************************************************************)
Row_a_x == <<"a",":"," ","x">>

Row_A_y == <<"A",":"," ","y">>

Row_bc_z == <<"b","-","c",":"," ","z">>

Row_spaces == <<" "," ","w"," ">>

Row_tab == <<"\t","v">>

Row_empty == <<>>

\* A name and ": " with nothing after it: not a field line.
Row_novalue == <<"a",":"," ">>

\* A row of one space: not empty.
Row_blank == <<" ">>

RowPool ==
    {Row_a_x, Row_A_y, Row_bc_z, Row_spaces, Row_tab, Row_empty, Row_novalue, Row_blank}

\* The most rows of a block given to lexBlock.
MaxRows == 4

InitLex ==
    /\ served = <<>>
    /\ cache = Absent
    /\ fetched = {}
    /\ runs = 1
    /\ pc = "lex"
    /\ res = NoResponse
    /\ off = 0
    /\ bss \in {<<Block(rows)>> : rows \in SeqsUpTo(RowPool, MaxRows)}
    /\ lexed = EmptyMap
    /\ cur = 0
    /\ r = ZeroRegistry
    /\ stdout = <<>>
    /\ diag = <<>>

\* lexBlock(string(bs)) on the block.
Lex ==
    /\ pc = "lex"
    /\ lexed' = lexBlock(bss[1])
    /\ cur' = 1
    /\ pc' = "lexed"
    /\ UNCHANGED <<served, cache, fetched, runs, res, off, bss, r, stdout, diag>>

NextLex == Lex

SpecLex == InitLex /\ [][NextLex]_vars

(***************************************************************************)
(* What the claims speak of                                                *)
(***************************************************************************)
\* The lines of a block.
Rows(block) == Split(block, <<"\n">>)

\* The field lines of a block: the rows PropRowRx matches.
FieldRows(rows) == {i \in 1..Len(rows) : PropRowRx(rows[i]) # <<>>}

\* The lower-cased name and the remainder of a field line.
FieldName(row) == ToLower(PropRowRx(row)[2])

FieldRest(row) == PropRowRx(row)[3]

\* The field lines that carry the name k, in the order of the block.
RowsNamed(rows, k) ==
    LET S == {i \in FieldRows(rows) : FieldName(rows[i]) = k}
    IN  [n \in 1..Cardinality(S) |->
            CHOOSE i \in S : Cardinality({j \in S : j < i}) = n - 1]

\* The value of the field line rows[i]: its remainder, then for each
\* non-empty row up to the next field line a space and the row without the
\* bytes of cutset at its start and its end.
FoldedValue(rows, i, cutset) ==
    LET last == Min({j \in FieldRows(rows) : j > i} \cup {Len(rows) + 1}) - 1
        RECURSIVE more(_)
        more(j) ==
            IF j > last THEN <<>>
            ELSE (IF rows[j] = <<>> THEN <<>> ELSE <<" ">> \o Trim(rows[j], cutset))
                 \o more(j + 1)
    IN  FieldRest(rows[i]) \o more(i + 1)

Whitespace == {" ", "\t", "\n", "\r", "\f"}

\* The run has come back from initRegistry: the first block was accepted.
HeaderAccepted == pc \in {"parse", "done"} \/ (pc = "fatal" /\ cur > 1)

\* parseBlock has returned an Entry for the block bss[j].
RecordAccepted(j) == j >= 2 /\ j <= cur /\ ~(pc = "fatal" /\ j = cur)

SingleValued ==
    {K_added, K_deprecated, K_comments, K_macrolanguage, K_preferred_value,
     K_scope, K_subtag, K_suppress_script, K_tag, K_type}

\* A header as the specification has it: the file-date field and no other,
\* with one value that is a calendar date.
WellFormedHeader(m) ==
    /\ DOMAIN m = {K_file_date}
    /\ Len(m[K_file_date]) = 1
    /\ TimeParse(m[K_file_date][1]).ok

\* A script code as the specification has it: four characters, all ASCII.
WellFormedScript(v) == Len(v) = 4 /\ \A j \in 1..Len(v) : IsASCII(v[j])

\* A record as the specification has it: known fields only, one value for
\* each single-valued field, calendar dates, a well-formed script code.
WellFormedRecord(m) ==
    \A k \in DOMAIN m :
        /\ k \in SingleValued \cup {K_description, K_prefix}
        /\ k \in SingleValued => Len(m[k]) = 1
        /\ k \in {K_added, K_deprecated} => TimeParse(m[k][1]).ok
        /\ k = K_suppress_script => WellFormedScript(m[k][1])

\* The key the struct tag of Entry gives the field of the name k.
YamlKey(k) ==
    CASE k = K_added           -> "added"
      [] k = K_comments        -> "comments"
      [] k = K_deprecated      -> "deprecated"
      [] k = K_description     -> "description"
      [] k = K_macrolanguage   -> "macro-language"
      [] k = K_preferred_value -> "preferred-value"
      [] k = K_prefix          -> "prefix"
      [] k = K_scope           -> "scope"
      [] k = K_subtag          -> "subtag"
      [] k = K_suppress_script -> "suppress-script"
      [] k = K_tag             -> "tag"
      [] k = K_type            -> "type"

(***************************************************************************)
(* The claims                                                              *)
(***************************************************************************)
\* C1: initRegistry accepts a first block only when its lexed mapping has
\* the one key file-date, with exactly one value that is a well-formed
\* YYYY-MM-DD date; a first block with any other field aborts the run.
C1_HeaderHoldsOnlyFileDate ==
    HeaderAccepted => WellFormedHeader(lexBlock(bss[1]))

\* C2: the Document is written to standard output only once the header and
\* every record block have parsed, and a run over a text with a malformed
\* block (header or record, in any position) aborts with nothing written.
C2_FailFastNoPartialOutput ==
    /\ stdout # <<>> => pc = "done"
    /\ pc = "done" =>
          /\ WellFormedHeader(lexBlock(bss[1]))
          /\ \A j \in 2..Len(bss) : WellFormedRecord(lexBlock(bss[j]))

\* C3: a record block with a suppress-script field is decoded only when the
\* field has exactly one value, of exactly four characters, all ASCII.
C3_ScriptIsFourAsciiCharacters ==
    \A j \in 2..Len(bss) :
        LET m == lexBlock(bss[j])
        IN  RecordAccepted(j) /\ K_suppress_script \in DOMAIN m =>
                /\ Len(m[K_suppress_script]) = 1
                /\ WellFormedScript(m[K_suppress_script][1])

\* C4: no block is accepted in which a field other than description and
\* prefix occurs more than once, names compared after lower-casing.
C4_SingleValuedFieldsOccurOnce ==
    \A j \in 1..Len(bss) :
        (IF j = 1 THEN HeaderAccepted ELSE RecordAccepted(j)) =>
            LET rows == Rows(bss[j])
            IN  \A i \in FieldRows(rows) :
                    FieldName(rows[i]) \notin {K_description, K_prefix} =>
                        Len(RowsNamed(rows, FieldName(rows[i]))) = 1

\* C5: lexBlock maps each lower-cased field name of the block to a list with
\* one entry per field line of that name, in the order of the lines, each
\* entry being the value that starts with the remainder of its line; no
\* entry is lost to a later line of the same name.
C5_RepeatedFieldKeepsEveryValue ==
    pc = "lexed" =>
        LET rows == Rows(bss[cur])
        IN  /\ DOMAIN lexed = {FieldName(rows[i]) : i \in FieldRows(rows)}
            /\ \A k \in DOMAIN lexed :
                  LET occ == RowsNamed(rows, k)
                  IN  /\ Len(lexed[k]) = Len(occ)
                      /\ \A n \in 1..Len(occ) :
                            IsPrefix(FieldRest(rows[occ[n]]), lexed[k][n])

\* C5, witness: a name given twice, in two cases, around another field.
C5_Witness ==
    /\ pc = "lexed"
    /\ bss[cur] = Block(<<Row_a_x, Row_bc_z, Row_A_y>>)
    /\ lexed[<<"a">>] = << <<"x">>, <<"y">> >>

\* C6, as stated: each value is the remainder of its field line followed,
\* for each non-empty continuation line, by one space and the line with its
\* leading and trailing whitespace removed.
C6_ContinuationTrimsWhitespace ==
    pc = "lexed" =>
        LET rows == Rows(bss[cur])
        IN  \A k \in DOMAIN lexed : \A n \in 1..Len(lexed[k]) :
                lexed[k][n] = FoldedValue(rows, RowsNamed(rows, k)[n], Whitespace)

\* C6, amended: each value is the remainder of its field line followed, for
\* each non-empty continuation line, by one space and the line with its
\* leading and trailing space characters removed; a tab or any other byte
\* stays.
C6_ContinuationTrimsSpaces ==
    pc = "lexed" =>
        LET rows == Rows(bss[cur])
        IN  \A k \in DOMAIN lexed : \A n \in 1..Len(lexed[k]) :
                lexed[k][n] = FoldedValue(rows, RowsNamed(rows, k)[n], {" "})

\* C6, witness: a value folded from a field line, a line in spaces, an empty
\* line and a line after a tab.
C6_Witness ==
    /\ pc = "lexed"
    /\ bss[cur] = Block(<<Row_a_x, Row_spaces, Row_empty, Row_tab>>)
    /\ lexed[<<"a">>] = << <<"x", " ", "w", " ", "\t", "v">> >>

\* C7: the blocks are the pieces of the text between the separators and the
\* remainder after the last one, without any byte of a separator, and the
\* blocks joined with the separator are the text.
C7_BlocksAreThePiecesBetweenSeparators ==
    pc = "init" => bss = Split(cache, sep) /\ Join(bss, sep) = cache

\* C8, as stated: an empty text yields no block.
C8_EmptyTextYieldsNoBlock ==
    pc = "init" /\ cache = <<>> => Len(bss) = 0

\* C8, amended: an empty text yields exactly one block, the empty one.
C8_EmptyTextYieldsOneEmptyBlock ==
    pc = "init" /\ cache = <<>> => bss = << <<>> >>

\* C8, witness: the splitter is done with the empty text.
C8_Witness ==
    pc = "init" /\ cache = <<>> /\ off = 0

\* C9: each entry of the encoded Document has exactly the keys of the
\* fields its block holds; an absent field, added too, has no key.
C9_EntryKeysAreThePresentFields ==
    pc = "done" =>
        \A n \in 1..Len(stdout[1].entries) :
            DOMAIN stdout[1].entries[n] =
                {YamlKey(k) : k \in DOMAIN lexBlock(bss[n + 1])}

\* C10: at the start of a run, registry.txt is either not there or the whole
\* body of an HTTP 200 response of an earlier run.
C10_CacheIsAWholeFetchedBody ==
    pc = "open" /\ cache # Absent => cache \in fetched

(***************************************************************************)
(* What the code does keep of C2 and C4                                    *)
(***************************************************************************)
\* Standard output is written once, at the end of a run in which
\* initRegistry and every parseBlock returned; a run that log.Fatalf ends
\* has written nothing.
OutputOnlyAfterEveryBlockDecoded ==
    /\ stdout # <<>> =>
          /\ pc = "done"
          /\ Len(stdout) = 1
          /\ initRegistry(bss).ok
          /\ \A j \in 2..Len(bss) : parseBlock(lexBlock(bss[j])).ok
          /\ Len(r.Entries) = Len(bss) - 1
    /\ pc = "done" => stdout # <<>>
    /\ pc \in {"fatal", "panic"} => stdout = <<>>

\* In an accepted record block no field but description and prefix occurs
\* twice, and file-date occurs once in an accepted first block.
DecodedFieldsOccurOnce ==
    \A j \in 1..Len(bss) :
        LET rows == Rows(bss[j])
        IN  /\ j = 1 /\ HeaderAccepted => Len(RowsNamed(rows, K_file_date)) = 1
            /\ RecordAccepted(j) =>
                  \A i \in FieldRows(rows) :
                      FieldName(rows[i]) \notin {K_description, K_prefix} =>
                          Len(RowsNamed(rows, FieldName(rows[i]))) = 1

=============================================================================
